---- MODULE Spec2Model ----
(***************************************************************************)
(* Model of openstack/identity/v2/tokens/results.go: the interpretation of *)
(* an Identity v2 authentication response (ExtractToken,                   *)
(* ExtractServiceCatalog) and the resolution of a service query against a  *)
(* service catalog (LocateEndpointURL).                                    *)
(*                                                                         *)
(* Strings that are only compared (names, types, regions, ids) are TLA+    *)
(* strings.  Strings that are transformed or parsed (URLs, timestamps) are *)
(* sequences of one-character strings, so that NormalizeURL and the        *)
(* timestamp parse operate on their characters.                            *)
(***************************************************************************)
EXTENDS Integers, Sequences, FiniteSets, TLC

VARIABLES
    result,    \* the CreateResult under interpretation: [Resp, Err]
    given,     \* the CreateResult as the upstream call produced it (history)
    catalog,   \* the *ServiceCatalog handed to LocateEndpointURL
    ret,       \* the last call: its name, its arguments and what it returned
    prev       \* the call before the last one

vars == <<result, given, catalog, ret, prev>>

\* --------------------------------------------------------------- bounds
\* longest catalog (and longest `serviceCatalog` array of a payload)
MaxEntries == 2
\* most endpoints a catalog holds, over all its entries
MaxEndpoints == 2

\* ------------------------------------------------------------ catalog model
EmptyStr == <<>>

\* type Endpoint struct.  VersionID, VersionInfo and VersionList are plain
\* strings handled exactly as TenantID (decoded, carried, never read) and are
\* not repeated here.
Endpoint(tenant, pub, int, adm, region) ==
    [TenantID |-> tenant, PublicURL |-> pub, InternalURL |-> int,
     AdminURL |-> adm, Region |-> region]

ZeroEndpoint == Endpoint("", EmptyStr, EmptyStr, EmptyStr, "")

\* type CatalogEntry struct
CatalogEntry(name, type, endpoints) ==
    [Name |-> name, Type |-> type, Endpoints |-> endpoints]

\* type ServiceCatalog struct
ServiceCatalog(entries) == [Entries |-> entries]

\* gophercloud.EndpointOpts, the fields LocateEndpointURL reads
EndpointOpts(type, name, region, availability) ==
    [Type |-> type, Name |-> name, Region |-> region, Availability |-> availability]

AvailabilityPublic == "public"
AvailabilityInternal == "internal"
AvailabilityAdmin == "admin"

\* ------------------------------------------------------------------ errors
\* Errors of LocateEndpointURL.  The message of the "too many" error is built
\* from len(endpoints) and endpoints; count and endpoints are what it prints.
LocateError(kind, endpoints) ==
    [kind |-> kind, count |-> Len(endpoints), endpoints |-> endpoints]

NoLocateError == LocateError("nil", <<>>)
ErrEndpointNotFound == LocateError("EndpointNotFound", <<>>)
ErrAmbiguousEndpoint(endpoints) == LocateError("AmbiguousEndpoint", endpoints)
ErrInvalidVisibility == LocateError("InvalidVisibility", <<>>)

\* ------------------------------------------------------- URL normalization
\* gophercloud.NormalizeURL.  Its source is not part of results.go; this is
\* the transform section 4.3 of the specification describes: total,
\* deterministic, trimming the trailing separators of a URL.
RECURSIVE NormalizeURL(_)
NormalizeURL(url) ==
    IF url # EmptyStr /\ url[Len(url)] = "/"
    THEN NormalizeURL(SubSeq(url, 1, Len(url) - 1))
    ELSE url

\* -------------------------------------------------------- LocateEndpointURL
\* The inner loop: the endpoints of one entry that pass the Region filter,
\* appended to acc in order.
RECURSIVE AppendMatchingEndpoints(_, _, _)
AppendMatchingEndpoints(acc, eps, opts) ==
    IF eps = <<>> THEN acc
    ELSE AppendMatchingEndpoints(
            IF opts.Region = "" \/ Head(eps).Region = opts.Region
            THEN Append(acc, Head(eps)) ELSE acc,
            Tail(eps), opts)

\* The outer loop: entries that pass the Type and Name filters contribute
\* their matching endpoints.
RECURSIVE CollectEndpoints(_, _, _)
CollectEndpoints(acc, entries, opts) ==
    IF entries = <<>> THEN acc
    ELSE CollectEndpoints(
            IF Head(entries).Type = opts.Type
               /\ (opts.Name = "" \/ Head(entries).Name = opts.Name)
            THEN AppendMatchingEndpoints(acc, Head(entries).Endpoints, opts)
            ELSE acc,
            Tail(entries), opts)

\* The final loop and switch: the URL of the first endpoint for
\* opts.Availability.
ExtractURL(endpoints, opts) ==
    IF endpoints = <<>>
    THEN [url |-> EmptyStr, err |-> ErrEndpointNotFound]
    ELSE LET endpoint == Head(endpoints) IN
         CASE opts.Availability = AvailabilityPublic ->
                [url |-> NormalizeURL(endpoint.PublicURL), err |-> NoLocateError]
           [] opts.Availability = AvailabilityInternal ->
                [url |-> NormalizeURL(endpoint.InternalURL), err |-> NoLocateError]
           [] opts.Availability = AvailabilityAdmin ->
                [url |-> NormalizeURL(endpoint.AdminURL), err |-> NoLocateError]
           [] OTHER ->
                [url |-> EmptyStr, err |-> ErrInvalidVisibility]

\* ---- variants of LocateEndpointURL, each with one slip
\* no "more than one" check: the first of several matches is returned
LocateFirstOfMany(cat, opts) ==
    LET endpoints == CollectEndpoints(<<>>, cat.Entries, opts)
        out == IF Len(endpoints) = 0
               THEN [url |-> EmptyStr, err |-> ErrEndpointNotFound]
               ELSE ExtractURL(endpoints, opts)
    IN  [url |-> out.url, err |-> out.err, endpoints |-> endpoints, catalog |-> cat]

\* the Name of the query is not applied
LocateIgnoringName(cat, opts) ==
    LET any == [opts EXCEPT !.Name = ""]
        endpoints == CollectEndpoints(<<>>, cat.Entries, any)
        out == IF Len(endpoints) = 0
               THEN [url |-> EmptyStr, err |-> ErrEndpointNotFound]
               ELSE IF Len(endpoints) > 1
               THEN [url |-> EmptyStr, err |-> ErrAmbiguousEndpoint(endpoints)]
               ELSE ExtractURL(endpoints, opts)
    IN  [url |-> out.url, err |-> out.err, endpoints |-> endpoints, catalog |-> cat]

\* the internal and admin cases of the switch return each other's field
LocateSwappedURLs(cat, opts) ==
    LET endpoints == CollectEndpoints(<<>>, cat.Entries, opts)
        swapped == [opts EXCEPT !.Availability =
                      IF opts.Availability = AvailabilityInternal THEN AvailabilityAdmin
                      ELSE IF opts.Availability = AvailabilityAdmin THEN AvailabilityInternal
                      ELSE opts.Availability]
        out == IF Len(endpoints) = 0
               THEN [url |-> EmptyStr, err |-> ErrEndpointNotFound]
               ELSE IF Len(endpoints) > 1
               THEN [url |-> EmptyStr, err |-> ErrAmbiguousEndpoint(endpoints)]
               ELSE ExtractURL(endpoints, swapped)
    IN  [url |-> out.url, err |-> out.err, endpoints |-> endpoints, catalog |-> cat]

\* the availability is validated before the matches are counted
LocateVisibilityFirst(cat, opts) ==
    LET endpoints == CollectEndpoints(<<>>, cat.Entries, opts)
        out == IF opts.Availability \notin
                    {AvailabilityPublic, AvailabilityInternal, AvailabilityAdmin}
               THEN [url |-> EmptyStr, err |-> ErrInvalidVisibility]
               ELSE IF Len(endpoints) = 0
               THEN [url |-> EmptyStr, err |-> ErrEndpointNotFound]
               ELSE IF Len(endpoints) > 1
               THEN [url |-> EmptyStr, err |-> ErrAmbiguousEndpoint(endpoints)]
               ELSE ExtractURL(endpoints, opts)
    IN  [url |-> out.url, err |-> out.err, endpoints |-> endpoints, catalog |-> cat]

\* an empty URL field is reported as "not found"
LocateEmptyIsNotFound(cat, opts) ==
    LET endpoints == CollectEndpoints(<<>>, cat.Entries, opts)
        one == ExtractURL(endpoints, opts)
        out == IF Len(endpoints) = 0
               THEN [url |-> EmptyStr, err |-> ErrEndpointNotFound]
               ELSE IF Len(endpoints) > 1
               THEN [url |-> EmptyStr, err |-> ErrAmbiguousEndpoint(endpoints)]
               ELSE IF one.err = NoLocateError /\ one.url = EmptyStr
               THEN [url |-> EmptyStr, err |-> ErrEndpointNotFound]
               ELSE one
    IN  [url |-> out.url, err |-> out.err, endpoints |-> endpoints, catalog |-> cat]

\* an empty Type of the query matches every entry, as Name and Region do
RECURSIVE CollectEndpointsAnyType(_, _, _)
CollectEndpointsAnyType(acc, entries, opts) ==
    IF entries = <<>> THEN acc
    ELSE CollectEndpointsAnyType(
            IF (opts.Type = "" \/ Head(entries).Type = opts.Type)
               /\ (opts.Name = "" \/ Head(entries).Name = opts.Name)
            THEN AppendMatchingEndpoints(acc, Head(entries).Endpoints, opts)
            ELSE acc,
            Tail(entries), opts)

LocateTypeWildcard(cat, opts) ==
    LET endpoints == CollectEndpointsAnyType(<<>>, cat.Entries, opts)
        out == IF Len(endpoints) = 0
               THEN [url |-> EmptyStr, err |-> ErrEndpointNotFound]
               ELSE IF Len(endpoints) > 1
               THEN [url |-> EmptyStr, err |-> ErrAmbiguousEndpoint(endpoints)]
               ELSE ExtractURL(endpoints, opts)
    IN  [url |-> out.url, err |-> out.err, endpoints |-> endpoints, catalog |-> cat]

\* What a call returns, with the catalog as the call leaves it and the local
\* `endpoints` slice as it stands when the function returns.
LocateEndpointURL(cat, opts) ==
    LET endpoints == CollectEndpoints(<<>>, cat.Entries, opts)
        out == IF Len(endpoints) = 0
               THEN [url |-> EmptyStr, err |-> ErrEndpointNotFound]
               ELSE IF Len(endpoints) > 1
               THEN [url |-> EmptyStr, err |-> ErrAmbiguousEndpoint(endpoints)]
               ELSE ExtractURL(endpoints, opts)
    IN  [url |-> out.url, err |-> out.err, endpoints |-> endpoints, catalog |-> cat]

\* ------------------------------------------------------------------ inputs
Types == {"compute", ""}
Names == {"nova", "swift"}
Regions == {"DFW", "ORD"}
Availabilities ==
    {AvailabilityPublic, AvailabilityInternal, AvailabilityAdmin, ""}

\* The endpoints catalogs are built from: one per region and one without a
\* region; every URL field is empty in one of them, ends in a separator in
\* another and does not in a third.
EndpointDFW == Endpoint("t1", <<"p">>, <<"i", "/">>, EmptyStr, "DFW")
EndpointORD == Endpoint("t2", <<"q", "/">>, EmptyStr, <<"a">>, "ORD")
EndpointNoRegion == Endpoint("", EmptyStr, <<"j">>, <<"b", "/">>, "")

Endpoints == { EndpointDFW, EndpointORD, EndpointNoRegion }

SeqsUpTo(S, n) == UNION { [1..k -> S] : k \in 0..n }

\* the catalogs of at most n entries holding at most budget endpoints
RECURSIVE CatalogsWithin(_, _)
CatalogsWithin(n, budget) ==
    IF n = 0 THEN { <<>> }
    ELSE { <<>> } \cup
         UNION { { <<CatalogEntry(nm, ty, eps)>> \o rest :
                     rest \in CatalogsWithin(n - 1, budget - Len(eps)) } :
                 nm \in Names, ty \in Types, eps \in SeqsUpTo(Endpoints, budget) }

Catalogs == { ServiceCatalog(es) : es \in CatalogsWithin(MaxEntries, MaxEndpoints) }

Queries ==
    { EndpointOpts(ty, nm, rg, av) :
        ty \in Types, nm \in Names \cup {""}, rg \in Regions \cup {""},
        av \in Availabilities }

\* ------------------------------------------------------------------- state
NoCall == [op |-> "none"]
NoResult == [Resp |-> [kind |-> "map", m |-> <<>>], Err |-> "nil"]

InitLocate ==
    /\ catalog \in Catalogs
    /\ result = NoResult
    /\ given = NoResult
    /\ ret = NoCall
    /\ prev = NoCall

\* The caller resolves one query against its catalog.
LocateEndpointURLCall ==
    /\ ret.op = "none"
    /\ \E opts \in Queries :
         LET out == LocateEndpointURL(catalog, opts) IN
         /\ ret' = [op |-> "LocateEndpointURL", catalog |-> catalog, opts |-> opts,
                    url |-> out.url, err |-> out.err, endpoints |-> out.endpoints]
         /\ catalog' = out.catalog
    /\ UNCHANGED <<result, given, prev>>

NextLocate == LocateEndpointURLCall

SpecLocate == InitLocate /\ [][NextLocate]_vars

\* ------------------------------------------------------ response payloads
\* A value of the untyped response tree (interface{}): JSON null, a string, a
\* number, an object (map[string]interface{}) or an array ([]interface{}).
Nil == [kind |-> "nil"]
Str(s) == [kind |-> "string", s |-> s]
Num == [kind |-> "number"]
Map(m) == [kind |-> "map", m |-> m]
Slice(l) == [kind |-> "slice", l |-> l]

\* the value under a key of an object; a missing key reads as no value
Field(v, key) ==
    IF v.kind = "map" /\ key \in DOMAIN v.m THEN v.m[key] ELSE Nil

Decoded(val) == [ok |-> TRUE, val |-> val]
Mismatch(zero) == [ok |-> FALSE, val |-> zero]

\* mapstructure.Decode into a string field: no value leaves the zero value, a
\* string is copied, anything else is a type mismatch (no weak conversion).
DecodeString(data, zero) ==
    CASE data.kind = "nil" -> Decoded(zero)
      [] data.kind = "string" -> Decoded(data.s)
      [] OTHER -> Mismatch(zero)

\* tenants.Tenant (defined outside results.go), its string fields
Tenant(id, name) == [ID |-> id, Name |-> name]
ZeroTenant == Tenant("", "")

DecodeTenant(data) ==
    CASE data.kind = "nil" -> Decoded(ZeroTenant)
      [] data.kind = "map" ->
           LET id == DecodeString(Field(data, "id"), "")
               name == DecodeString(Field(data, "name"), "")
           IN  [ok |-> id.ok /\ name.ok, val |-> Tenant(id.val, name.val)]
      [] OTHER -> Mismatch(ZeroTenant)

\* mapstructure.Decode into an Endpoint, by the struct tags
DecodeEndpoint(data) ==
    CASE data.kind = "nil" -> Decoded(ZeroEndpoint)
      [] data.kind = "map" ->
           LET tenant == DecodeString(Field(data, "tenantId"), "")
               pub == DecodeString(Field(data, "publicURL"), EmptyStr)
               int == DecodeString(Field(data, "internalURL"), EmptyStr)
               adm == DecodeString(Field(data, "adminURL"), EmptyStr)
               region == DecodeString(Field(data, "region"), "")
           IN  [ok |-> tenant.ok /\ pub.ok /\ int.ok /\ adm.ok /\ region.ok,
                val |-> Endpoint(tenant.val, pub.val, int.val, adm.val, region.val)]
      [] OTHER -> Mismatch(ZeroEndpoint)

\* mapstructure.Decode into a []Endpoint: the source must be an array; the
\* result has its length and its order
DecodeEndpoints(data) ==
    CASE data.kind = "nil" -> Decoded(<<>>)
      [] data.kind = "slice" ->
           LET each == [i \in 1..Len(data.l) |-> DecodeEndpoint(data.l[i])]
           IN  [ok |-> \A i \in 1..Len(data.l) : each[i].ok,
                val |-> [i \in 1..Len(data.l) |-> each[i].val]]
      [] OTHER -> Mismatch(<<>>)

\* mapstructure.Decode into a CatalogEntry, by the struct tags
DecodeCatalogEntry(data) ==
    CASE data.kind = "nil" -> Decoded(CatalogEntry("", "", <<>>))
      [] data.kind = "map" ->
           LET name == DecodeString(Field(data, "name"), "")
               type == DecodeString(Field(data, "type"), "")
               endpoints == DecodeEndpoints(Field(data, "endpoints"))
           IN  [ok |-> name.ok /\ type.ok /\ endpoints.ok,
                val |-> CatalogEntry(name.val, type.val, endpoints.val)]
      [] OTHER -> Mismatch(CatalogEntry("", "", <<>>))

\* mapstructure.Decode into a []CatalogEntry
DecodeEntries(data) ==
    CASE data.kind = "nil" -> Decoded(<<>>)
      [] data.kind = "slice" ->
           LET each == [i \in 1..Len(data.l) |-> DecodeCatalogEntry(data.l[i])]
           IN  [ok |-> \A i \in 1..Len(data.l) : each[i].ok,
                val |-> [i \in 1..Len(data.l) |-> each[i].val]]
      [] OTHER -> Mismatch(<<>>)

\* the response struct of ExtractServiceCatalog: Access.Entries
DecodeCatalogResponse(resp) ==
    LET access == Field(resp, "access") IN
    CASE access.kind = "nil" -> Decoded(<<>>)
      [] access.kind = "map" -> DecodeEntries(Field(access, "serviceCatalog"))
      [] OTHER -> Mismatch(<<>>)

\* the response struct of ExtractToken: Access.Token.{Expires, ID, Tenant}
TokenFields(expires, id, tenant) == [Expires |-> expires, ID |-> id, Tenant |-> tenant]
ZeroTokenFields == TokenFields(EmptyStr, "", ZeroTenant)

DecodeTokenFields(data) ==
    CASE data.kind = "nil" -> Decoded(ZeroTokenFields)
      [] data.kind = "map" ->
           LET expires == DecodeString(Field(data, "expires"), EmptyStr)
               id == DecodeString(Field(data, "id"), "")
               tenant == DecodeTenant(Field(data, "tenant"))
           IN  [ok |-> expires.ok /\ id.ok /\ tenant.ok,
                val |-> TokenFields(expires.val, id.val, tenant.val)]
      [] OTHER -> Mismatch(ZeroTokenFields)

DecodeTokenResponse(resp) ==
    LET access == Field(resp, "access") IN
    CASE access.kind = "nil" -> Decoded(ZeroTokenFields)
      [] access.kind = "map" -> DecodeTokenFields(Field(access, "token"))
      [] OTHER -> Mismatch(ZeroTokenFields)

\* ------------------------------------------------------------- timestamps
\* time.Parse with the layout gophercloud.RFC3339Milli (a constant defined
\* outside results.go; a fixed millisecond-precision profile by the
\* specification, without fallback formats), on timestamps scaled
\* down to <day> "T" <second> "." <millisecond> "Z" with one digit each: the
\* text must have exactly this shape; the instant is counted in milliseconds.
Digits == {"0", "1", "2"}
DigitValue(c) == CASE c = "0" -> 0 [] c = "1" -> 1 [] c = "2" -> 2

ParseTime(s) ==
    IF /\ Len(s) = 6
       /\ s[1] \in Digits /\ s[2] = "T" /\ s[3] \in Digits
       /\ s[4] = "." /\ s[5] \in Digits /\ s[6] = "Z"
    THEN [ok |-> TRUE,
          t |-> 100 * DigitValue(s[1]) + 10 * DigitValue(s[3]) + DigitValue(s[5])]
    ELSE [ok |-> FALSE, t |-> 0]

\* ------------------------------------------------------------ ExtractToken
\* type Token struct
Token(id, expiresAt, tenant) == [ID |-> id, ExpiresAt |-> expiresAt, Tenant |-> tenant]

\* What a call returns: the *Token (<<>> is nil), the error ("nil" is nil), the
\* fallible steps it went through, and the Resp map as the call leaves it.
Returned(value, err, steps, resp) ==
    [value |-> value, err |-> err, steps |-> steps, resp |-> resp]

\* ---- variants of ExtractToken, each with one slip
\* the payload is decoded before the captured error is looked at
ExtractTokenDecodesFirst(res) ==
    LET response == DecodeTokenResponse(res.Resp) IN
    IF ~response.ok
    THEN Returned(<<>>, "DecodeError", <<"Decode">>, res.Resp)
    ELSE IF res.Err # "nil"
    THEN Returned(<<>>, res.Err, <<"Decode">>, res.Resp)
    ELSE LET expiresTs == ParseTime(response.val.Expires) IN
         IF ~expiresTs.ok
         THEN Returned(<<>>, "FormatError", <<"Decode", "Parse">>, res.Resp)
         ELSE Returned(<< Token(response.val.ID, expiresTs.t, response.val.Tenant) >>,
                       "nil", <<"Decode", "Parse">>, res.Resp)

\* the error of time.Parse is dropped: the Token carries the zero time
ExtractTokenIgnoresParseError(res) ==
    IF res.Err # "nil"
    THEN Returned(<<>>, res.Err, <<>>, res.Resp)
    ELSE LET response == DecodeTokenResponse(res.Resp) IN
         IF ~response.ok
         THEN Returned(<<>>, "DecodeError", <<"Decode">>, res.Resp)
         ELSE LET expiresTs == ParseTime(response.val.Expires) IN
              Returned(<< Token(response.val.ID, expiresTs.t, response.val.Tenant) >>,
                       "nil", <<"Decode", "Parse">>, res.Resp)

\* the token is taken out of the response map once it has been decoded
ExtractTokenConsumesPayload(res) ==
    IF res.Err # "nil"
    THEN Returned(<<>>, res.Err, <<>>, res.Resp)
    ELSE LET response == DecodeTokenResponse(res.Resp) IN
         IF ~response.ok
         THEN Returned(<<>>, "DecodeError", <<"Decode">>, res.Resp)
         ELSE LET expiresTs == ParseTime(response.val.Expires) IN
              IF ~expiresTs.ok
              THEN Returned(<<>>, "FormatError", <<"Decode", "Parse">>, Map(<<>>))
              ELSE Returned(<< Token(response.val.ID, expiresTs.t, response.val.Tenant) >>,
                            "nil", <<"Decode", "Parse">>, Map(<<>>))

ExtractToken(res) ==
    IF res.Err # "nil"
    THEN Returned(<<>>, res.Err, <<>>, res.Resp)
    ELSE LET response == DecodeTokenResponse(res.Resp) IN
         IF ~response.ok
         THEN Returned(<<>>, "DecodeError", <<"Decode">>, res.Resp)
         ELSE LET expiresTs == ParseTime(response.val.Expires) IN
              IF ~expiresTs.ok
              THEN Returned(<<>>, "FormatError", <<"Decode", "Parse">>, res.Resp)
              ELSE Returned(<< Token(response.val.ID, expiresTs.t, response.val.Tenant) >>,
                            "nil", <<"Decode", "Parse">>, res.Resp)

\* --------------------------------------------------- ExtractServiceCatalog
\* a variant with one slip: a response without `serviceCatalog` is refused
ExtractServiceCatalogRequiresKey(res) ==
    IF res.Err # "nil"
    THEN Returned(<<>>, res.Err, <<>>, res.Resp)
    ELSE LET response == DecodeCatalogResponse(res.Resp) IN
         IF ~response.ok \/ Field(Field(res.Resp, "access"), "serviceCatalog") = Nil
         THEN Returned(<<>>, "DecodeError", <<"Decode">>, res.Resp)
         ELSE Returned(<< ServiceCatalog(response.val) >>, "nil", <<"Decode">>, res.Resp)

ExtractServiceCatalog(res) ==
    IF res.Err # "nil"
    THEN Returned(<<>>, res.Err, <<>>, res.Resp)
    ELSE LET response == DecodeCatalogResponse(res.Resp) IN
         IF ~response.ok
         THEN Returned(<<>>, "DecodeError", <<"Decode">>, res.Resp)
         ELSE Returned(<< ServiceCatalog(response.val) >>, "nil", <<"Decode">>, res.Resp)

\* --------------------------------------------------------- decoder inputs
Absent == [kind |-> "absent"]

\* an object of the given fields, without those that are Absent
Object(fields) ==
    Map([k \in { k \in DOMAIN fields : fields[k] # Absent } |-> fields[k]])

ExpiresStrings ==
    { <<"1", "T", "0", ".", "2", "Z">>,       \* conformant
      <<"0", "T", "0", ".", "0", "Z">>,       \* conformant, instant 0
      <<"1", "T", "0", "Z">>,                 \* no millisecond fraction
      <<"1", "T", "0", ".", "2">>,            \* no zone
      <<"n", "o", "t", "-", "a", "-", "d", "a", "t", "e">>,
      EmptyStr }

ExpiresValues == { Absent, Num } \cup { Str(s) : s \in ExpiresStrings }
IDValues == { Absent, Num, Str("tok-1") }
TenantValues ==
    { Absent, Str("acme"),
      Object([id |-> Str("t1"), name |-> Str("acme")]),
      Object([id |-> Num, name |-> Absent]) }

TokenValues ==
    { Absent, Nil, Str("tok-1") } \cup
    { Object([expires |-> e, id |-> i, tenant |-> t]) :
        e \in ExpiresValues, i \in IDValues, t \in TenantValues }

EndpointValueDFW ==
    Object([tenantId |-> Str("t1"), publicURL |-> Str(<<"p">>),
            internalURL |-> Str(<<"i", "/">>), adminURL |-> Absent,
            region |-> Str("DFW")])
EndpointValueORD ==
    Object([tenantId |-> Str("t2"), publicURL |-> Str(<<"q", "/">>),
            internalURL |-> Nil, adminURL |-> Str(<<"a">>),
            region |-> Str("ORD")])

EntryValues ==
    { Object([name |-> Str("nova"), type |-> Str("compute"),
              endpoints |-> Slice(<<EndpointValueDFW, EndpointValueORD>>)]),
      Object([name |-> Absent, type |-> Str("object-store"), endpoints |-> Absent]),
      Object([name |-> Str("swift"), type |-> Str("object-store"),
              endpoints |-> Slice(<<EndpointValueORD, Str("http://x")>>)]),
      Num }

CatalogValues ==
    { Absent, Nil, Str("none") } \cup
    { Slice(l) : l \in SeqsUpTo(EntryValues, MaxEntries) }

AccessValues ==
    { Absent, Nil, Num } \cup
    { Object([token |-> t, serviceCatalog |-> c]) :
        t \in TokenValues, c \in CatalogValues }

Errs == { "nil", "ErrUnauthorized", "ErrTimeout" }

CreateResults ==
    { [Resp |-> Object([access |-> a]), Err |-> e] : a \in AccessValues, e \in Errs }

InitDecode ==
    /\ result \in CreateResults
    /\ given = result
    /\ catalog = ServiceCatalog(<<>>)
    /\ ret = NoCall
    /\ prev = NoCall

ExtractTokenCall ==
    LET out == ExtractToken(result) IN
    /\ ret' = [op |-> "ExtractToken", value |-> out.value, err |-> out.err,
               steps |-> out.steps]
    /\ prev' = ret
    /\ result' = [Resp |-> out.resp, Err |-> result.Err]
    /\ UNCHANGED <<given, catalog>>

ExtractServiceCatalogCall ==
    LET out == ExtractServiceCatalog(result) IN
    /\ ret' = [op |-> "ExtractServiceCatalog", value |-> out.value, err |-> out.err,
               steps |-> out.steps]
    /\ prev' = ret
    /\ result' = [Resp |-> out.resp, Err |-> result.Err]
    /\ UNCHANGED <<given, catalog>>

NextDecode == ExtractTokenCall \/ ExtractServiceCatalogCall

SpecDecode == InitDecode /\ [][NextDecode]_vars

\* ------------------------------------------------ properties of the resolver
Located == ret.op = "LocateEndpointURL"

Recognized == {AvailabilityPublic, AvailabilityInternal, AvailabilityAdmin}

\* the places <<entry, endpoint>> of a catalog
Places(cat) ==
    UNION { { <<i, j>> : j \in 1..Len(cat.Entries[i].Endpoints) } :
            i \in 1..Len(cat.Entries) }

EndpointAt(cat, p) == cat.Entries[p[1]].Endpoints[p[2]]

\* the places a query selects: Type AND Name AND Region
Matching(cat, q) ==
    { p \in Places(cat) :
        /\ cat.Entries[p[1]].Type = q.Type
        /\ (q.Name = "" \/ cat.Entries[p[1]].Name = q.Name)
        /\ (q.Region = "" \/ EndpointAt(cat, p).Region = q.Region) }

Before(p, r) == p[1] < r[1] \/ (p[1] = r[1] /\ p[2] < r[2])

\* seq lists the endpoints at the places of M, each once, entry by entry and
\* endpoint by endpoint
ListsInOrder(seq, cat, M) ==
    /\ Len(seq) = Cardinality(M)
    /\ \E f \in [1..Len(seq) -> M] :
         /\ \A a, b \in 1..Len(seq) : a < b => Before(f[a], f[b])
         /\ \A k \in 1..Len(seq) : seq[k] = EndpointAt(cat, f[k])

Matched == Matching(ret.catalog, ret.opts)

TheMatch == EndpointAt(ret.catalog, CHOOSE p \in Matched : TRUE)

URLField(e, availability) ==
    CASE availability = AvailabilityPublic -> e.PublicURL
      [] availability = AvailabilityInternal -> e.InternalURL
      [] availability = AvailabilityAdmin -> e.AdminURL

\* two "compute" entries, one in DFW and one in ORD
TwoRegionCatalog ==
    ServiceCatalog(<< CatalogEntry("nova", "compute", <<EndpointDFW>>),
                      CatalogEntry("nova", "compute", <<EndpointORD>>) >>)

\* C1: when more than one endpoint matches, LocateEndpointURL returns no URL
\* and the "too many" error, which carries the number of matches and the
\* matching endpoints in entry-then-endpoint order; the first match is not
\* returned.  Two "compute" entries in DFW and ORD queried without a Region
\* give that error with count 2, and with Region "DFW" the DFW endpoint's URL.
C1_AmbiguousEndpoint ==
    Located =>
      /\ Cardinality(Matched) > 1 =>
           /\ ret.err.kind = "AmbiguousEndpoint"
           /\ ret.url = EmptyStr
           /\ ret.err.count = Cardinality(Matched)
           /\ ListsInOrder(ret.err.endpoints, ret.catalog, Matched)
      /\ (ret.catalog = TwoRegionCatalog /\ ret.opts.Type = "compute"
          /\ ret.opts.Name \in {"", "nova"}) =>
           /\ ret.opts.Region = "" =>
                /\ ret.err.kind = "AmbiguousEndpoint"
                /\ ret.err.count = 2
                /\ ret.err.endpoints = <<EndpointDFW, EndpointORD>>
                /\ ret.url = EmptyStr
           /\ (ret.opts.Region = "DFW" /\ ret.opts.Availability \in Recognized) =>
                /\ ret.err = NoLocateError
                /\ ret.url = NormalizeURL(URLField(EndpointDFW, ret.opts.Availability))

C1_Witness ==
    /\ Located
    /\ ret.catalog = TwoRegionCatalog
    /\ ret.opts = EndpointOpts("compute", "", "", AvailabilityPublic)
    /\ ret.err.kind = "AmbiguousEndpoint"
    /\ ret.err.count = 2

\* C2: when no endpoint matches, LocateEndpointURL returns no URL and
\* ErrEndpointNotFound.
C2_EndpointNotFound ==
    (Located /\ Matched = {}) =>
      /\ ret.err = ErrEndpointNotFound
      /\ ret.url = EmptyStr

\* an entry of the requested Type with endpoints, excluded by a Name no entry has
C2_Witness ==
    /\ Located
    /\ Matched = {}
    /\ ret.opts.Name # ""
    /\ ret.opts.Region = ""
    /\ \E i \in 1..Len(ret.catalog.Entries) :
         /\ ret.catalog.Entries[i].Type = ret.opts.Type
         /\ ret.catalog.Entries[i].Endpoints # <<>>
    /\ \A i \in 1..Len(ret.catalog.Entries) :
         ret.catalog.Entries[i].Name # ret.opts.Name
    /\ ret.err = ErrEndpointNotFound

\* C3: when exactly one endpoint matches and the Availability is public,
\* internal or admin, LocateEndpointURL succeeds with the normalized PublicURL,
\* InternalURL or AdminURL, respectively, of that endpoint.
C3_UniqueMatchURL ==
    (Located /\ Cardinality(Matched) = 1 /\ ret.opts.Availability \in Recognized) =>
      /\ ret.err = NoLocateError
      /\ ret.url = NormalizeURL(URLField(TheMatch, ret.opts.Availability))

\* one match among two endpoints, whose three URL fields normalize differently
C3_Witness ==
    /\ Located
    /\ Cardinality(Matched) = 1
    /\ Cardinality(Places(ret.catalog)) = 2
    /\ ret.opts.Availability = AvailabilityInternal
    /\ ret.err = NoLocateError
    /\ ret.url = NormalizeURL(TheMatch.InternalURL)
    /\ ret.url # NormalizeURL(TheMatch.PublicURL)
    /\ ret.url # NormalizeURL(TheMatch.AdminURL)
    /\ \A p \in Places(ret.catalog) \ Matched :
         ret.url # NormalizeURL(EndpointAt(ret.catalog, p).InternalURL)

\* C4: the Availability is validated after the matches are counted: with an
\* unrecognized Availability the error is ErrEndpointNotFound for no match,
\* the "too many" error for several, and the availability error for exactly
\* one; the availability error is returned in no other case.
C4_VisibilityCheckedLast ==
    Located =>
      /\ ret.opts.Availability \notin Recognized =>
           /\ Cardinality(Matched) = 0 => ret.err.kind = "EndpointNotFound"
           /\ Cardinality(Matched) > 1 => ret.err.kind = "AmbiguousEndpoint"
           /\ Cardinality(Matched) = 1 =>
                ret.err.kind = "InvalidVisibility" /\ ret.url = EmptyStr
      /\ ret.err.kind = "InvalidVisibility" =>
           Cardinality(Matched) = 1 /\ ret.opts.Availability \notin Recognized

C4_Witness ==
    /\ Located
    /\ ret.opts.Availability \notin Recognized
    /\ Cardinality(Matched) > 1
    /\ ret.err.kind = "AmbiguousEndpoint"

C10_CollectedEndpoints ==
    Located =>
      /\ ListsInOrder(ret.endpoints, ret.catalog, Matched)
      /\ catalog = ret.catalog

\* a query without Type, Name and Region against a catalog that has both an
\* entry without Type and a "compute" entry, each with an endpoint
C10_Witness ==
    /\ Located
    /\ ret.opts.Type = "" /\ ret.opts.Name = "" /\ ret.opts.Region = ""
    /\ \E i, j \in 1..Len(ret.catalog.Entries) :
         /\ ret.catalog.Entries[i].Type = ""
         /\ ret.catalog.Entries[j].Type = "compute"
         /\ ret.catalog.Entries[i].Endpoints # <<>>
         /\ ret.catalog.Entries[j].Endpoints # <<>>
    /\ Len(ret.endpoints) = 1
    /\ catalog = ret.catalog

\* ------------------------------------------------- properties of the decoder
TokenCalled == ret.op = "ExtractToken"
CatalogCalled == ret.op = "ExtractServiceCatalog"

StringOr(v, zero) == IF v.kind = "string" THEN v.s ELSE zero

AccessValue == Field(result.Resp, "access")
TokenValue == Field(AccessValue, "token")
TenantValue == Field(TokenValue, "tenant")
CatalogValue == Field(AccessValue, "serviceCatalog")
ExpiresText == StringOr(Field(TokenValue, "expires"), EmptyStr)

\* every value on the paths ExtractToken reads is missing or of the kind the
\* response struct declares
TokenShape ==
    /\ AccessValue.kind \in {"nil", "map"}
    /\ TokenValue.kind \in {"nil", "map"}
    /\ Field(TokenValue, "expires").kind \in {"nil", "string"}
    /\ Field(TokenValue, "id").kind \in {"nil", "string"}
    /\ TenantValue.kind \in {"nil", "map"}
    /\ Field(TenantValue, "id").kind \in {"nil", "string"}
    /\ Field(TenantValue, "name").kind \in {"nil", "string"}

\* C6: with a captured error in the CreateResult, ExtractToken and
\* ExtractServiceCatalog return that error and nil, and go through neither
\* the structural decode nor the timestamp parse, whatever the payload.
C6_CapturedErrorFirst ==
    ((TokenCalled \/ CatalogCalled) /\ result.Err # "nil") =>
      /\ ret.err = result.Err
      /\ ret.value = <<>>
      /\ ret.steps = <<>>

\* a captured error over a payload both operations could decode
C6_Witness ==
    /\ CatalogCalled
    /\ prev.op = "ExtractToken"
    /\ result.Err = "ErrTimeout"
    /\ TokenShape /\ ParseTime(ExpiresText).ok
    /\ CatalogValue.kind = "slice" /\ CatalogValue.l # <<>>
    /\ ret.err = "ErrTimeout" /\ prev.err = "ErrTimeout"
    /\ ret.steps = <<>> /\ prev.steps = <<>>

\* C7: without a captured error, ExtractToken fails with the decode error when
\* the payload does not have the declared shape, without parsing; fails with
\* the format error when the shape is right and `expires` does not parse; and
\* succeeds otherwise.  A failure returns no Token; a success returns the
\* Token with the parsed instant of `expires` and the id and tenant of the
\* payload.
C7_TokenOnlyAfterBothSteps ==
    (TokenCalled /\ result.Err = "nil") =>
      /\ ret.err = "DecodeError" <=> ~TokenShape
      /\ ret.err = "FormatError" <=> (TokenShape /\ ~ParseTime(ExpiresText).ok)
      /\ ret.err = "nil" <=> (TokenShape /\ ParseTime(ExpiresText).ok)
      /\ ret.err = "DecodeError" => ret.steps = <<"Decode">>
      /\ ret.err = "FormatError" => ret.steps = <<"Decode", "Parse">>
      /\ ret.err # "nil" => ret.value = <<>>
      /\ ret.err = "nil" =>
           ret.value =
             << Token(StringOr(Field(TokenValue, "id"), ""),
                      ParseTime(ExpiresText).t,
                      Tenant(StringOr(Field(TenantValue, "id"), ""),
                             StringOr(Field(TenantValue, "name"), ""))) >>

\* `expires` is "not-a-date" beside a usable id and tenant
C7_Witness ==
    /\ TokenCalled
    /\ result.Err = "nil"
    /\ Field(TokenValue, "expires") = Str(<<"n", "o", "t", "-", "a", "-", "d", "a", "t", "e">>)
    /\ Field(TokenValue, "id") = Str("tok-1")
    /\ TenantValue.kind = "map"
    /\ ret.err = "FormatError"
    /\ ret.value = <<>>

EntryAsDecoded(v) ==
    LET eps == Field(v, "endpoints")
        n == IF eps.kind = "slice" THEN Len(eps.l) ELSE 0
    IN  CatalogEntry(
          StringOr(Field(v, "name"), ""),
          StringOr(Field(v, "type"), ""),
          [j \in 1..n |->
             Endpoint(StringOr(Field(eps.l[j], "tenantId"), ""),
                      StringOr(Field(eps.l[j], "publicURL"), EmptyStr),
                      StringOr(Field(eps.l[j], "internalURL"), EmptyStr),
                      StringOr(Field(eps.l[j], "adminURL"), EmptyStr),
                      StringOr(Field(eps.l[j], "region"), ""))])

\* C8: without a captured error, a payload whose `access` has no
\* `serviceCatalog` key makes ExtractServiceCatalog succeed with no entries;
\* with the key, a successful call returns the entries of the array and their
\* endpoints, one for one and in the order of the payload.
C8_MissingCatalogIsEmpty ==
    (CatalogCalled /\ result.Err = "nil") =>
      /\ (AccessValue.kind \in {"nil", "map"} /\ CatalogValue = Nil) =>
           /\ ret.err = "nil"
           /\ ret.value = << ServiceCatalog(<<>>) >>
      /\ (CatalogValue.kind = "slice" /\ ret.err = "nil") =>
           /\ Len(ret.value) = 1
           /\ Len(ret.value[1].Entries) = Len(CatalogValue.l)
           /\ \A i \in 1..Len(CatalogValue.l) :
                ret.value[1].Entries[i] = EntryAsDecoded(CatalogValue.l[i])

\* an `access` object with a token and without `serviceCatalog`
C8_Witness ==
    /\ CatalogCalled
    /\ result.Err = "nil"
    /\ AccessValue.kind = "map"
    /\ DOMAIN AccessValue.m = {"token"}
    /\ ret.err = "nil"
    /\ ret.value = << ServiceCatalog(<<>>) >>

\* C9: after any calls of ExtractToken and ExtractServiceCatalog the
\* CreateResult is as the upstream call produced it, and the last call
\* returned what that operation returns on the CreateResult as it was produced.
C9_DecodesLeaveResultAlone ==
    /\ result = given
    /\ TokenCalled =>
         /\ ret.value = ExtractToken(given).value
         /\ ret.err = ExtractToken(given).err
    /\ CatalogCalled =>
         /\ ret.value = ExtractServiceCatalog(given).value
         /\ ret.err = ExtractServiceCatalog(given).err

\* ExtractToken failed on a malformed `expires`, then ExtractServiceCatalog
\* returned the entries of the same response
C9_Witness ==
    /\ prev.op = "ExtractToken"
    /\ prev.err = "FormatError"
    /\ CatalogCalled
    /\ ret.err = "nil"
    /\ ret.value[1].Entries # <<>>
    /\ result = given

====
